---- MODULE Spec2Model ----
(***************************************************************************)
(* CustomWandbCallback (src/util/callbacks.py): the lifecycle observer     *)
(* that forwards training telemetry to the remote sink (wandb) and mirrors *)
(* it into a local JSON snapshot file.                                     *)
(*                                                                         *)
(* A handler is a sequence of steps, one per statement that calls a        *)
(* collaborator or changes the recorder; pc is the position inside the     *)
(* handler that handler names.  Collaborators (the base callback, wandb,   *)
(* DataInterface, the file system, math.exp) answer nondeterministically:  *)
(* they succeed or raise.  An exception that no except clause of the       *)
(* handler catches leaves the handler (pc = "aborted"); the Trainer        *)
(* catches nothing around its callbacks, so the run ends there.            *)
(*                                                                         *)
(* Floats are fixed-point numbers counted in thousandths (0.5 is 500).     *)
(* A dict is the sequence of its <<key, value>> items in insertion order.  *)
(***************************************************************************)
EXTENDS Integers, Sequences, FiniteSets, TLC

VARIABLES
    handler,        \* the method running, or the last one that ran
    pc,             \* position inside it; "done" = returned, "aborted" = raised
    args,           \* arguments of the running call: project (of __init__),
                    \* state.global_step, state.epoch, model, logs
    json_schema,    \* self.json_schema
    file,           \* the snapshot file on disk: [exists, content]
    f,              \* the file object of write_to_json: [open, buf, bin, cut]
    env,            \* os.environ: [WANDB_PROJECT, WANDB_WATCH]
    calls,          \* calls the running handler has made to its collaborators, in order
    energy_data,    \* local of on_epoch_end: the reading last obtained
    energy_metrics, \* local of on_epoch_end: the dict built from energy_data
    fault,          \* the exception last raised inside the running handler
    exc,            \* the exception that escaped the handler
    pre,            \* json_schema, file and logs as the handler was entered
    steps_seen,     \* history: state.global_step of every on_step_end event so far
    epochs_seen     \* history: number of on_epoch_end events so far

vars == <<handler, pc, args, json_schema, file, f, env, calls, energy_data,
          energy_metrics, fault, exc, pre, steps_seen, epochs_seen>>

----------------------------------------------------------------------------
(* Bounds of the model *)

\* on_step_end events in one run
MaxStepEnds == 2

\* on_epoch_end events in one run
MaxEpochEnds == 2

----------------------------------------------------------------------------
(* Inputs *)

\* The unit of the fixed-point floats: 1.0
One == 1000

\* math.exp raises OverflowError above 709.782712893384 (the largest double is e^709.78...)
MaxExpArg == 709782

\* state.global_step
GlobalSteps == {1, 2}

\* The Trainer's state at the end of epoch k: state.epoch is a float and counts
\* the epochs; the epochs here have one step each
EpochState(k) == [epoch |-> k * One, global_step |-> k]

NoModel == [num_parameters |-> 0, trainable_parameters |-> 0]

\* The Trainer's model and state as training begins: a model with frozen
\* parameters, resumed at the second step
TrainStarts == { [model |-> [num_parameters |-> 1000, trainable_parameters |-> 800],
                  global_step |-> 2] }

\* model.num_parameters(), model.num_parameters(only_trainable=True)
Models == { t.model : t \in TrainStarts }

\* What DataInterface exposes
Readings == { [kg_carbon |-> 500, total_power |-> 100000, PUE |-> 1200, exp_len_hours |-> 2000],
              [kg_carbon |-> 0, total_power |-> 250, PUE |-> 1000, exp_len_hours |-> 1500] }

NoReading == [kg_carbon |-> -1, total_power |-> -1, PUE |-> -1, exp_len_hours |-> -1]

\* logs payloads of on_log
LogPayloads == { << <<"loss", 0>> >>,
                 << <<"loss", 1000>>, <<"learning_rate", 1>> >>,
                 << <<"learning_rate", 1>>, <<"loss", 2500>>, <<"epoch", 1000>> >>,
                 << <<"eval_loss", 1000>>, <<"epoch", 2000>> >>,
                 << >>,
                 << <<"loss", 710000>> >> }

\* Constructor arguments
Projects == {"mistral", "None"}
energy_log == "energy_log/"
energy_dir == "energy_dir/"

----------------------------------------------------------------------------
(* dict *)

RECURSIVE DictGet(_, _)
DictGet(d, k) ==
    IF Head(d)[1] = k THEN Head(d)[2] ELSE DictGet(Tail(d), k)

\* d[k] = v: an existing key keeps its place, a new key goes to the end
RECURSIVE DictSet(_, _, _)
DictSet(d, k, v) ==
    IF d = <<>> THEN << <<k, v>> >>
    ELSE IF Head(d)[1] = k THEN << <<k, v>> >> \o Tail(d)
    ELSE << Head(d) >> \o DictSet(Tail(d), k, v)

----------------------------------------------------------------------------
(* json.dump: the chunks the encoder (json.encoder._make_iterencode) hands *)
(* to fp.write, one after the other.                                       *)

Quote(k) == "\"" \o k \o "\""

IntStr(n) == ToString(n)

\* float.__repr__ of a fixed-point float: 500 is 0.5, 100000 is 100.0, 1250 is 1.25
FloatStr(x) ==
    LET whole == x \div 1000
        frac  == x % 1000
        digits == IF frac % 100 = 0 THEN ToString(frac \div 100)
                  ELSE IF frac % 10 = 0
                       THEN (IF frac < 100 THEN "0" ELSE "") \o ToString(frac \div 10)
                       ELSE (IF frac < 10 THEN "00" ELSE IF frac < 100 THEN "0" ELSE "")
                            \o ToString(frac)
    IN  ToString(whole) \o "." \o digits

\* _iterencode's choice by the value's type: int.__repr__ or float.__repr__
NumStr(v, isfloat) == IF isfloat THEN FloatStr(v) ELSE IntStr(v)

\* _iterencode_dict over a dict of numbers
RECURSIVE EncodeItems(_, _, _)
EncodeItems(d, first, isfloat) ==
    IF d = <<>> THEN <<>>
    ELSE (IF first THEN <<>> ELSE <<", ">>)
         \o << Quote(Head(d)[1]), ": ", NumStr(Head(d)[2], isfloat) >>
         \o EncodeItems(Tail(d), FALSE, isfloat)

EncodeDict(d, isfloat) ==
    IF d = <<>> THEN << "{}" >>
    ELSE << "{" >> \o EncodeItems(d, TRUE, isfloat) \o << "}" >>

\* _iterencode_list over the elements lo..hi of a list of ints: for each value,
\* yield buf + _intstr(value), buf being '[' for the first and ', ' after it
RECURSIVE EncodeIntElems(_, _, _)
EncodeIntElems(l, lo, hi) ==
    IF lo > hi THEN <<>>
    ELSE IF lo = hi THEN << (IF lo = 1 THEN "[" ELSE ", ") \o IntStr(l[lo]) >>
    ELSE LET mid == (lo + hi) \div 2
         IN  EncodeIntElems(l, lo, mid) \o EncodeIntElems(l, mid + 1, hi)

EncodeIntList(l) ==
    IF l = <<>> THEN << "[]" >>
    ELSE EncodeIntElems(l, 1, Len(l)) \o << "]" >>

\* _iterencode_list over the elements lo..hi of a list of dicts of floats: for
\* each value, yield buf, then the dict's chunks
RECURSIVE EncodeDictElems(_, _, _)
EncodeDictElems(l, lo, hi) ==
    IF lo > hi THEN <<>>
    ELSE IF lo = hi THEN << (IF lo = 1 THEN "[" ELSE ", ") >> \o EncodeDict(l[lo], TRUE)
    ELSE LET mid == (lo + hi) \div 2
         IN  EncodeDictElems(l, lo, mid) \o EncodeDictElems(l, mid + 1, hi)

EncodeDictList(l) ==
    IF l = <<>> THEN << "[]" >>
    ELSE EncodeDictElems(l, 1, Len(l)) \o << "]" >>

\* json.dump(self.json_schema, f): the three keys in the order __init__ inserts them
JsonDump(data) ==
    << "{", Quote("model_info"), ": " >> \o EncodeDict(data.model_info, FALSE)
    \o << ", ", Quote("energy_metrics"), ": " >> \o EncodeDictList(data.energy_metrics)
    \o << ", ", Quote("global_step_info"), ": " >> \o EncodeIntList(data.global_step_info)
    \o << "}" >>

----------------------------------------------------------------------------
(* The recorder *)

\* Stands for a snapshot that is not there: self.json_schema before __init__ assigns
\* it, the value of a file that does not parse
NoSnapshot == [model_info |-> <<>>, energy_metrics |-> <<>>, global_step_info |-> <<>>]

\* self.json_schema as __init__ sets it
EmptySchema == [model_info |-> <<>>, energy_metrics |-> <<>>, global_step_info |-> <<>>]

NoExc == [kind |-> "none", site |-> "none"]
NoStep == << "none", 0 >>
NoArgs == [project |-> "None", global_step |-> 0, epoch |-> 0, model |-> NoModel, logs |-> <<>>]
Closed == [open |-> FALSE, buf |-> <<>>, bin |-> <<>>, cut |-> FALSE]

\* One call to a collaborator
Call(op, target, payload, step) ==
    [op |-> op, target |-> target, payload |-> payload, step |-> step]

\* super().<name>(...)
Super(name, payload) == Call("super", name, payload, NoStep)

\* Variant: the try block opens after the second DataInterface call
TrySitesAfterQuery == {"ee_log2", "ee_append", "w_open", "w_dump", "w_close"}

\* Variant: the try block encloses both DataInterface calls
TrySitesBothQueries == {"ee_query1", "ee_log1", "ee_query2", "ee_log2", "ee_append",
                        "w_open", "w_dump", "w_close"}

\* The statements inside the try block of on_epoch_end; write_to_json's are inside it
\* when on_epoch_end is the caller
TrySites == {"ee_query2", "ee_log2", "ee_append", "w_open", "w_dump", "w_close"}

\* Variant: no try block
CatchesNothing(h, site, kind) == FALSE

\* Variant: a bare except
CatchesAny(h, site, kind) ==
    h = "on_epoch_end" /\ site \in TrySites

\* Variant: except (ValueError, OSError)
CatchesIOToo(h, site, kind) ==
    h = "on_epoch_end" /\ site \in TrySites /\ kind \in {"ValueError", "OSError"}

\* try: ... except ValueError: pass
Catches(h, site, kind) ==
    h = "on_epoch_end" /\ site \in TrySites /\ kind = "ValueError"

\* An exception of this kind is raised by the statement at site
\* What a call of wandb raises: an error of its own (wandb.Error), or ValueError
\* (a payload or a step it does not accept)
SinkErrors == {"wandb.Error", "ValueError"}

Raise(site, kind) ==
    /\ fault' = [kind |-> kind, site |-> site]
    /\ IF Catches(handler, site, kind)
       THEN pc' = "ee_pass" /\ exc' = exc
       ELSE pc' = "aborted" /\ exc' = [kind |-> kind, site |-> site]

\* The Trainer calls handler h with arguments a; the handler before it has returned
Enter(h, a) ==
    /\ pc = "done"
    /\ handler' = h
    /\ args' = a
    /\ calls' = <<>>
    /\ fault' = NoExc
    /\ pre' = [json_schema |-> json_schema, file |-> file, logs |-> a.logs]
    /\ energy_data' = NoReading
    /\ energy_metrics' = <<>>

\* Before construction: the path may hold nothing, the snapshot of an earlier run,
\* or something else
OldFiles == { [exists |-> FALSE, content |-> <<>>],
              [exists |-> TRUE, content |-> <<>>],
              [exists |-> TRUE, content |-> << "{}", "\n" >>],
              [exists |-> TRUE,
               content |-> JsonDump([EmptySchema EXCEPT !.global_step_info = << 1 >>])] }

Init ==
    /\ handler = "__init__"
    /\ pc = "init"
    /\ args \in { [NoArgs EXCEPT !.project = p] : p \in Projects }
    /\ json_schema = NoSnapshot
    /\ file \in OldFiles
    /\ f = Closed
    /\ env = [WANDB_PROJECT |-> "unset", WANDB_WATCH |-> "unset"]
    /\ calls = <<>>
    /\ energy_data = NoReading
    /\ energy_metrics = <<>>
    /\ fault = NoExc
    /\ exc = NoExc
    /\ pre = [json_schema |-> NoSnapshot, file |-> file, logs |-> <<>>]
    /\ steps_seen = <<>>
    /\ epochs_seen = 0

\* isinstance(project, str); "None" stands for a project that is no string
IsStr(project) == project # "None"

\* __init__, up to the call of write_to_json
init ==
    /\ pc = "init"
    /\ calls' = Append(calls, Super("__init__", <<>>))
    /\ \/ /\ env' = [WANDB_PROJECT |-> IF IsStr(args.project) THEN args.project
                                       ELSE env.WANDB_PROJECT,
                     WANDB_WATCH |-> "false"]
          /\ json_schema' = EmptySchema
          /\ pc' = "w_open"
          /\ UNCHANGED <<fault, exc>>
       \/ /\ Raise("init", "Exception")
          /\ UNCHANGED <<env, json_schema>>
    /\ UNCHANGED <<handler, args, file, f, energy_data, energy_metrics, pre,
                   steps_seen, epochs_seen>>

----------------------------------------------------------------------------
(* write_to_json *)

\* Variant: open(file_name, "a") keeps what the file holds
OpenA(old) == [exists |-> TRUE, content |-> old.content]

\* open(file_name, "w") creates the file or truncates it
OpenW(old) == [exists |-> TRUE, content |-> <<>>]

\* with open(file_name, "w") as f
w_open ==
    /\ pc = "w_open"
    /\ \/ /\ file' = OpenW(file)
          /\ f' = [Closed EXCEPT !.open = TRUE]
          /\ pc' = "w_dump"
          /\ UNCHANGED <<fault, exc>>
       \/ /\ Raise("w_open", "OSError")
          /\ UNCHANGED <<file, f>>
    /\ UNCHANGED <<handler, args, json_schema, env, calls, energy_data, energy_metrics,
                   pre, steps_seen, epochs_seen>>

(* The file object is a text layer over a binary layer over the file.  The text
   layer (f.buf) collects the chunks written to it and hands them down when they
   reach ChunkSize; the binary layer (f.bin) keeps what fits in its buffer of
   BinSize bytes and passes the rest to the system.  What is written through the
   file object is one stream of chunks: the system holds its first bytes, the
   binary layer the bytes behind them, the text layer the chunks behind those.
   A chunk of which the system took only a part is cut in two. *)

\* TextIOWrapper._CHUNK_SIZE
ChunkSize == 8192

\* The buffer of the BufferedWriter open() makes: the file's st_blksize
BinSize == 4096

\* The byte counts of chunks lo..hi of c, summed up from base
RECURSIVE SumsIn(_, _, _, _)
SumsIn(c, lo, hi, base) ==
    IF lo > hi THEN <<>>
    ELSE IF lo = hi THEN << base + Len(c[lo]) >>
    ELSE LET mid == (lo + hi) \div 2
             left == SumsIn(c, lo, mid, base)
         IN  left \o SumsIn(c, mid + 1, hi, left[Len(left)])

\* Sums(c)[i] is the number of bytes of the chunks 1..i of c
Sums(c) == SumsIn(c, 1, Len(c), 0)

\* The number of bytes of the first i chunks, P being the sums of the chunks
Upto(P, i) == IF i = 0 THEN 0 ELSE P[i]

\* The number of bytes of c
ByteLen(c) == Upto(Sums(c), Len(c))

\* The largest i of lo..hi whose first i chunks have at most n bytes (the first
\* lo chunks have)
RECURSIVE Whole(_, _, _, _)
Whole(P, n, lo, hi) ==
    IF lo >= hi THEN lo
    ELSE LET mid == (lo + hi + 1) \div 2
         IN  IF Upto(P, mid) <= n THEN Whole(P, n, mid, hi)
             ELSE Whole(P, n, lo, mid - 1)

\* A cut after n bytes falls inside a chunk
CutInside(P, n) ==
    LET k == Whole(P, n, 0, Len(P))
    IN  k < Len(P) /\ n > Upto(P, k)

\* The first n bytes of c: the chunks that fit and, where the cut falls inside a
\* chunk, the part of it before the cut
FirstBytes(c, P, n) ==
    LET k == Whole(P, n, 0, Len(c))
    IN  SubSeq(c, 1, k)
        \o (IF CutInside(P, n) THEN << SubSeq(c[k + 1], 1, n - Upto(P, k)) >> ELSE <<>>)

\* The first j chunks of c without their first n bytes
RestBytes(c, P, n, j) ==
    LET k == Whole(P, n, 0, j)
    IN  IF k < j /\ n > Upto(P, k)
        THEN << SubSeq(c[k + 1], n - Upto(P, k) + 1, Len(c[k + 1])) >>
             \o SubSeq(c, k + 2, j)
        ELSE SubSeq(c, k + 1, j)

\* b written behind a; when cut, b starts with the rest of the chunk a ends in
Glue(a, b, cut) ==
    IF cut /\ a # <<>> /\ b # <<>>
    THEN SubSeq(a, 1, Len(a) - 1) \o << a[Len(a)] \o b[1] >> \o Tail(b)
    ELSE a \o b

\* The state of a write, in bytes of the stream: D bytes the system has taken, B
\* bytes behind them in the binary layer's buffer, L bytes the system still
\* takes before it refuses (a full disk, a quota, RLIMIT_FSIZE), and whether it
\* has refused, which raises OSError
Io(b, limit) == [D |-> 0, B |-> b, L |-> limit, err |-> FALSE]

\* BufferedWriter.flush: write(2) until the buffer is empty; a write takes what
\* the system still takes, and fails when that is nothing
BinFlush(io) ==
    IF io.L >= io.B
    THEN [io EXCEPT !.D = @ + io.B, !.B = 0, !.L = @ - io.B]
    ELSE [io EXCEPT !.D = @ + io.L, !.B = @ - io.L, !.L = 0, !.err = TRUE]

\* BufferedWriter.write of n bytes: data that fits in the buffer stays there;
\* otherwise the buffer is flushed, data is written to the file as long as more
\* than a buffer of it is left, and what is left goes to the buffer
BinWrite(io, n) ==
    LET a == BinFlush(io)
    IN  IF n <= BinSize - io.B THEN [io EXCEPT !.B = @ + n]
        ELSE IF a.err THEN a
        ELSE IF n <= BinSize THEN [a EXCEPT !.B = n]
        ELSE IF a.L >= n THEN [a EXCEPT !.D = @ + n, !.L = @ - n]
        ELSE IF a.L = 0 \/ n - a.L > BinSize
        THEN [a EXCEPT !.D = @ + a.L, !.L = 0, !.err = TRUE]
        ELSE [a EXCEPT !.D = @ + a.L, !.B = n - a.L, !.L = 0]

\* TextIOWrapper.write of the chunks of the stream from chunk s on, P being the
\* sums of the stream's chunks: the pending chunks are handed down before the
\* chunk that would take them past ChunkSize, and after the chunk with which
\* they reach it.  [io, s]: the chunks from s on are pending; the pending chunks
\* of a failing write are lost
RECURSIVE TextWrite(_, _, _)
TextWrite(io, P, s) ==
    IF s > Len(P) THEN [io |-> io, s |-> s]
    ELSE LET base == Upto(P, s - 1)
             k == Whole(P, base + ChunkSize, s - 1, Len(P))
             j == IF k < s THEN s ELSE k
             n == P[j] - base
             a == BinWrite(io, n)
         IN  IF j = Len(P) /\ n < ChunkSize THEN [io |-> io, s |-> s]
             ELSE IF a.err THEN [io |-> a, s |-> Len(P) + 1]
             ELSE TextWrite(a, P, j + 1)

\* f.close(): the text layer hands down its n pending bytes, the binary layer
\* flushes, the file is closed
TextClose(io, n) ==
    LET a == IF n = 0 THEN io ELSE BinWrite(io, n)
    IN  IF a.err THEN a ELSE BinFlush(a)

\* The limits that make a difference to a write of n bytes: n is no limit
Limits(n) == 0..n

\* json.dump(data, f): the encoder's chunks are written to f one by one.  While
\* they stay below ChunkSize nothing reaches the system (and no limit makes a
\* difference); when the system refuses, OSError leaves json.dump and the with
\* block, whose exit closes the file first (w_close)
w_dump ==
    /\ pc = "w_dump"
    /\ \E all \in { f.bin \o f.buf \o JsonDump(json_schema) } :
       \E P \in { Sums(all) } :
       \E b \in { Upto(P, Len(f.bin)) }, n \in { Upto(P, Len(all)) } :
       \E limit \in (IF n - b < ChunkSize THEN {n} ELSE Limits(n)) :
       \E r \in { TextWrite(Io(b, limit), P, Len(f.bin) + 1) } :
       \E bin \in { RestBytes(all, P, r.io.D, Whole(P, r.io.D + r.io.B, 0, Len(all))) } :
          /\ file' = [file EXCEPT !.content = Glue(@, FirstBytes(all, P, r.io.D), f.cut)]
          /\ f' = [open |-> TRUE, buf |-> SubSeq(all, r.s, Len(all)), bin |-> bin,
                   cut |-> /\ bin # <<>>
                           /\ IF r.io.D = 0 THEN f.cut ELSE CutInside(P, r.io.D)]
          /\ fault' = IF r.io.err THEN [kind |-> "OSError", site |-> "w_dump"]
                      ELSE fault
    /\ pc' = "w_close"
    /\ UNCHANGED <<handler, args, json_schema, env, calls, energy_data,
                   energy_metrics, exc, pre, steps_seen, epochs_seen>>

\* An OSError of json.dump is on its way out of the with block
DumpFailed == fault.site = "w_dump"

\* The with block's exit, f.close(): what is pending goes to the system, which
\* takes the first limit bytes of it, and the file object is closed whether the
\* system took all or not.  An OSError of close replaces the one on its way out
w_close ==
    /\ pc = "w_close"
    /\ f' = Closed
    /\ \E all \in { f.bin \o f.buf } :
       \E P \in { Sums(all) } :
       \E b \in { Upto(P, Len(f.bin)) }, n \in { Upto(P, Len(all)) } :
       \E limit \in Limits(n) :
       \E c \in { TextClose(Io(b, limit), n - b) } :
          /\ file' = [file EXCEPT !.content = Glue(@, FirstBytes(all, P, c.D), f.cut)]
          /\ \/ /\ ~c.err /\ ~DumpFailed
                /\ pc' = "done"
                /\ UNCHANGED <<fault, exc>>
             \/ /\ ~c.err /\ DumpFailed
                /\ Raise("w_dump", "OSError")
             \/ /\ c.err \/ limit = n
                /\ Raise("w_close", "OSError")
    /\ UNCHANGED <<handler, args, json_schema, env, calls, energy_data, energy_metrics,
                   pre, steps_seen, epochs_seen>>

----------------------------------------------------------------------------
(* Handlers that only delegate *)

\* The Trainer calls a handler whose body is super().<h>(args, state, control, ...)
Delegate(h) ==
    /\ Enter(h, NoArgs)
    /\ pc' = "super"
    /\ UNCHANGED <<json_schema, file, f, env, exc, steps_seen, epochs_seen>>

\* Variant: the handler goes on to rewrite the file
super_call_Write ==
    /\ pc = "super"
    /\ calls' = Append(calls, Super(handler, <<>>))
    /\ \/ pc' = "w_open" /\ UNCHANGED <<fault, exc>>
       \/ Raise("super", "Exception")
    /\ UNCHANGED <<handler, args, json_schema, file, f, env, energy_data, energy_metrics,
                   pre, steps_seen, epochs_seen>>

\* super().<h>(...): it returns, and so does the handler, or it raises
super_call ==
    /\ pc = "super"
    /\ calls' = Append(calls, Super(handler, <<>>))
    /\ \/ pc' = "done" /\ UNCHANGED <<fault, exc>>
       \/ Raise("super", "Exception")
    /\ UNCHANGED <<handler, args, json_schema, file, f, env, energy_data, energy_metrics,
                   pre, steps_seen, epochs_seen>>

on_init_end == Delegate("on_init_end")

on_epoch_begin == Delegate("on_epoch_begin")

on_step_begin == Delegate("on_step_begin")

on_evaluate == Delegate("on_evaluate")

on_save == Delegate("on_save")

on_prediction_step == Delegate("on_prediction_step")

on_train_end == Delegate("on_train_end")

----------------------------------------------------------------------------
(* on_step_end *)

on_step_end ==
    /\ Len(steps_seen) < MaxStepEnds
    /\ \E s \in GlobalSteps :
          /\ Enter("on_step_end", [NoArgs EXCEPT !.global_step = s])
          /\ steps_seen' = Append(steps_seen, s)
    /\ pc' = "se_log"
    /\ UNCHANGED <<json_schema, file, f, env, exc, epochs_seen>>

\* Variant: the record is sent without step=
se_log_NoStep ==
    /\ pc = "se_log"
    /\ calls' = Append(calls, Call("log", "wandb",
                                   << << "info/global_step", args.global_step >> >>,
                                   NoStep))
    /\ \/ pc' = "se_append" /\ UNCHANGED <<fault, exc>>
       \/ \E k \in SinkErrors : Raise("se_log", k)
    /\ UNCHANGED <<handler, args, json_schema, file, f, env, energy_data, energy_metrics,
                   pre, steps_seen, epochs_seen>>

\* self._wandb.log({"info/global_step": state.global_step}, step=state.global_step)
se_log ==
    /\ pc = "se_log"
    /\ calls' = Append(calls, Call("log", "wandb",
                                   << << "info/global_step", args.global_step >> >>,
                                   << "int", args.global_step >>))
    /\ \/ pc' = "se_append" /\ UNCHANGED <<fault, exc>>
       \/ \E k \in SinkErrors : Raise("se_log", k)
    /\ UNCHANGED <<handler, args, json_schema, file, f, env, energy_data, energy_metrics,
                   pre, steps_seen, epochs_seen>>

\* Variant: a step already recorded is not recorded again
StepAppendUnique(schema, s) ==
    IF \E i \in 1..Len(schema.global_step_info) : schema.global_step_info[i] = s
    THEN schema
    ELSE [schema EXCEPT !.global_step_info = Append(@, s)]

\* self.json_schema["global_step_info"].append(state.global_step)
StepAppend(schema, s) ==
    [schema EXCEPT !.global_step_info = Append(@, s)]

se_append ==
    /\ pc = "se_append"
    /\ json_schema' = StepAppend(json_schema, args.global_step)
    /\ pc' = "w_open"
    /\ UNCHANGED <<handler, args, file, f, env, calls, energy_data, energy_metrics,
                   fault, exc, pre, steps_seen, epochs_seen>>

----------------------------------------------------------------------------
(* on_train_begin *)

on_train_begin ==
    /\ \E t \in TrainStarts :
          Enter("on_train_begin", [NoArgs EXCEPT !.model = t.model,
                                                 !.global_step = t.global_step])
    /\ pc' = "tb_super"
    /\ UNCHANGED <<json_schema, file, f, env, exc, steps_seen, epochs_seen>>

\* super().on_train_begin(args, state, control, model, **kwargs)
tb_super ==
    /\ pc = "tb_super"
    /\ calls' = Append(calls, Super("on_train_begin", <<>>))
    /\ \/ pc' = "tb_watch" /\ UNCHANGED <<fault, exc>>
       \/ Raise("tb_super", "Exception")
    /\ UNCHANGED <<handler, args, json_schema, file, f, env, energy_data, energy_metrics,
                   pre, steps_seen, epochs_seen>>

\* self._wandb.watch(model)
tb_watch ==
    /\ pc = "tb_watch"
    /\ calls' = Append(calls, Call("watch", "wandb", <<>>, NoStep))
    /\ \/ pc' = "tb_log" /\ UNCHANGED <<fault, exc>>
       \/ \E k \in SinkErrors : Raise("tb_watch", k)
    /\ UNCHANGED <<handler, args, json_schema, file, f, env, energy_data, energy_metrics,
                   pre, steps_seen, epochs_seen>>

\* The record on_train_begin sends to wandb
ModelInfoLog(m) ==
    << << "model-info/num_parameters", m.num_parameters >>,
       << "model-info/trainable_parameters", m.trainable_parameters >> >>

\* self._wandb.log({...}, step=state.global_step)
tb_log ==
    /\ pc = "tb_log"
    /\ calls' = Append(calls, Call("log", "wandb", ModelInfoLog(args.model),
                                   << "int", args.global_step >>))
    /\ \/ pc' = "tb_set" /\ UNCHANGED <<fault, exc>>
       \/ \E k \in SinkErrors : Raise("tb_log", k)
    /\ UNCHANGED <<handler, args, json_schema, file, f, env, energy_data, energy_metrics,
                   pre, steps_seen, epochs_seen>>

\* Variant: only_trainable=True forgotten
ModelInfoTotalOnly(m) ==
    << << "num_parameters", m.num_parameters >>,
       << "trainable_parameters", m.num_parameters >> >>

\* The dict on_train_begin stores under "model_info"
ModelInfo(m) ==
    << << "num_parameters", m.num_parameters >>,
       << "trainable_parameters", m.trainable_parameters >> >>

\* self.json_schema["model_info"] = {...}
tb_set ==
    /\ pc = "tb_set"
    /\ json_schema' = [json_schema EXCEPT !.model_info = ModelInfo(args.model)]
    /\ pc' = "w_open"
    /\ UNCHANGED <<handler, args, file, f, env, calls, energy_data, energy_metrics,
                   fault, exc, pre, steps_seen, epochs_seen>>

----------------------------------------------------------------------------
(* on_epoch_end *)

on_epoch_end ==
    /\ epochs_seen < MaxEpochEnds
    /\ Enter("on_epoch_end",
             [NoArgs EXCEPT !.epoch = EpochState(epochs_seen + 1).epoch,
                            !.global_step = EpochState(epochs_seen + 1).global_step])
    /\ epochs_seen' = epochs_seen + 1
    /\ pc' = "ee_super"
    /\ UNCHANGED <<json_schema, file, f, env, exc, steps_seen>>

\* super().on_epoch_end(args, state, control, **kwargs)
ee_super ==
    /\ pc = "ee_super"
    /\ calls' = Append(calls, Super("on_epoch_end", <<>>))
    /\ \/ pc' = "ee_query1" /\ UNCHANGED <<fault, exc>>
       \/ Raise("ee_super", "Exception")
    /\ UNCHANGED <<handler, args, json_schema, file, f, env, energy_data, energy_metrics,
                   pre, steps_seen, epochs_seen>>

\* The dict on_epoch_end builds from a reading
EnergyMetrics(r) ==
    << << "carbon_kg", r.kg_carbon >>,
       << "total_power", r.total_power >>,
       << "power_usage_effectiveness", r.PUE >>,
       << "exp_len_hrs", r.exp_len_hours >> >>

\* What DataInterface raises: ValueError ("Unable to get either GPU or CPU metric."),
\* or another error (the log directory is missing)
QueryErrors == {"ValueError", "FileNotFoundError"}

\* energy_data = DataInterface(path); energy_metrics = {...}
Query(site, path, next) ==
    /\ pc = site
    /\ calls' = Append(calls, Call("DataInterface", path, <<>>, NoStep))
    /\ \/ \E r \in Readings :
             /\ energy_data' = r
             /\ energy_metrics' = EnergyMetrics(r)
             /\ pc' = next
             /\ UNCHANGED <<fault, exc>>
       \/ \E k \in QueryErrors :
             /\ Raise(site, k)
             /\ UNCHANGED <<energy_data, energy_metrics>>
    /\ UNCHANGED <<handler, args, json_schema, file, f, env, pre, steps_seen, epochs_seen>>

\* self._wandb.log({"energy_metrics": energy_metrics}, step=step)
EnergyLog(site, step, next) ==
    /\ pc = site
    /\ calls' = Append(calls, Call("log", "wandb",
                                   << << "energy_metrics", energy_metrics >> >>, step))
    /\ \/ pc' = next /\ UNCHANGED <<fault, exc>>
       \/ \E k \in SinkErrors : Raise(site, k)
    /\ UNCHANGED <<handler, args, json_schema, file, f, env, energy_data, energy_metrics,
                   pre, steps_seen, epochs_seen>>

\* DataInterface(args.energy_dir)
ee_query1 == Query("ee_query1", energy_dir, "ee_log1")

\* Variant: the first record keyed at the global step, like the second
ee_log1_GlobalStep == EnergyLog("ee_log1", << "int", args.global_step >>, "ee_query2")

\* step=state.epoch
ee_log1 == EnergyLog("ee_log1", << "float", args.epoch >>, "ee_query2")

\* DataInterface(self.energy_log), inside the try block
ee_query2 == Query("ee_query2", energy_log, "ee_log2")

\* step=state.global_step
ee_log2 == EnergyLog("ee_log2", << "int", args.global_step >>, "ee_append")

\* Variant: insert(0, energy_metrics)
EnergyAppendFront(schema, entry) ==
    [schema EXCEPT !.energy_metrics = << entry >> \o @]

\* self.json_schema["energy_metrics"].append(energy_metrics)
EnergyAppend(schema, entry) ==
    [schema EXCEPT !.energy_metrics = Append(@, entry)]

ee_append ==
    /\ pc = "ee_append"
    /\ json_schema' = EnergyAppend(json_schema, energy_metrics)
    /\ pc' = "w_open"
    /\ UNCHANGED <<handler, args, file, f, env, calls, energy_data, energy_metrics,
                   fault, exc, pre, steps_seen, epochs_seen>>

\* except ValueError: pass
ee_pass ==
    /\ pc = "ee_pass"
    /\ pc' = "done"
    /\ UNCHANGED <<handler, args, json_schema, file, f, env, calls, energy_data,
                   energy_metrics, fault, exc, pre, steps_seen, epochs_seen>>

----------------------------------------------------------------------------
(* on_log *)

\* math.exp works on doubles, which carry more digits than a fixed-point float of
\* the model.  e^x is computed here on long numbers, so that its error stays far
\* below a thousandth of the result.  A long integer is the sequence of its digits
\* in base One, lowest first (<<>> is 0); a long number is [m, e], the long
\* integer m times One^e.

\* Digits behind the point of the series' terms, in base One
FracLimbs == 8

\* Digits a product keeps, in base One
Prec == 10

\* Digit i of a long integer
Limb(a, i) == IF i \in 1..Len(a) THEN a[i] ELSE 0

\* Without the zeros at the high end
RECURSIVE Trim(_)
Trim(a) ==
    IF a # <<>> /\ a[Len(a)] = 0 THEN Trim(SubSeq(a, 1, Len(a) - 1)) ELSE a

\* Without the n lowest digits: the long integer divided by One^n, cut
ShiftDown(a, n) == IF Len(a) <= n THEN <<>> ELSE SubSeq(a, n + 1, Len(a))

\* The digits of the long integer whose digit i is c[i] >= 0, whatever its size
RECURSIVE Carry(_, _, _)
Carry(c, i, carry) ==
    IF i > Len(c)
    THEN IF carry = 0 THEN <<>>
         ELSE << carry % One >> \o Carry(c, i, carry \div One)
    ELSE LET v == c[i] + carry
         IN  << v % One >> \o Carry(c, i + 1, v \div One)

\* a + b
BigAdd(a, b) ==
    LET n == IF Len(a) > Len(b) THEN Len(a) ELSE Len(b)
    IN  Trim(Carry([i \in 1..n |-> Limb(a, i) + Limb(b, i)], 1, 0))

\* a - b, for a >= b
RECURSIVE Borrow(_, _, _, _)
Borrow(a, b, i, br) ==
    IF i > Len(a) THEN <<>>
    ELSE LET v == a[i] - Limb(b, i) - br
         IN  IF v < 0 THEN << v + One >> \o Borrow(a, b, i + 1, 1)
             ELSE << v >> \o Borrow(a, b, i + 1, 0)

BigSub(a, b) == Trim(Borrow(a, b, 1, 0))

\* a * k, for an integer 0 <= k <= One
BigScale(a, k) == Trim(Carry([i \in 1..Len(a) |-> a[i] * k], 1, 0))

\* a / d cut, for an integer 0 < d < One
RECURSIVE DivLimbs(_, _, _, _)
DivLimbs(a, d, i, rem) ==
    IF i = 0 THEN <<>>
    ELSE LET v == rem * One + a[i]
         IN  DivLimbs(a, d, i - 1, v % d) \o << v \div d >>

BigDiv(a, d) == Trim(DivLimbs(a, d, Len(a), 0))

\* The sum of a[i] * b[k + 1 - i] over i in lo..hi: digit k of the product
RECURSIVE Dot(_, _, _, _, _)
Dot(a, b, k, lo, hi) ==
    IF lo > hi THEN 0 ELSE a[lo] * b[k + 1 - lo] + Dot(a, b, k, lo + 1, hi)

\* p * q of long numbers, cut to its Prec highest digits
BigMul(p, q) ==
    IF p.m = <<>> \/ q.m = <<>> THEN [m |-> <<>>, e |-> 0]
    ELSE LET a == p.m
             b == q.m
             lo(k) == IF k > Len(b) THEN k + 1 - Len(b) ELSE 1
             hi(k) == IF k > Len(a) THEN Len(a) ELSE k
             c == Trim(Carry([k \in 1..(Len(a) + Len(b) - 1) |->
                                 Dot(a, b, k, lo(k), hi(k))], 1, 0))
             d == IF Len(c) > Prec THEN Len(c) - Prec ELSE 0
         IN  [m |-> ShiftDown(c, d), e |-> p.e + q.e + d]

\* 1.0
BigOne == [m |-> << 1 >>, e |-> 0]

\* b^n, by squaring
RECURSIVE BigPow(_, _)
BigPow(b, n) ==
    IF n = 0 THEN BigOne
    ELSE LET h == BigPow(b, n \div 2)
             s == BigMul(h, h)
         IN  IF h.m = <<>> THEN h
             ELSE IF n % 2 = 1 THEN BigMul(s, b) ELSE s

\* The series 1 + x + x^2/2! + ... for a fixed-point 0 <= x <= 1.0, in long
\* integers that count One^-FracLimbs, summed until the terms vanish: term is
\* x^n/n!; the terms of even n and of odd n are summed apart, << even, odd >>
RECURSIVE ExpSeries(_, _, _, _, _)
ExpSeries(x, n, term, even, odd) ==
    IF term = <<>> THEN << even, odd >>
    ELSE ExpSeries(x, n + 1, BigDiv(ShiftDown(BigScale(term, x), 1), n + 1),
                   IF n % 2 = 0 THEN BigAdd(even, term) ELSE even,
                   IF n % 2 = 1 THEN BigAdd(odd, term) ELSE odd)

\* e^x, or e^-x when neg, for a fixed-point 0 <= x <= 1.0
ExpUnit(x, neg) ==
    LET s == ExpSeries(x, 0, [i \in 1..(FracLimbs + 1) |-> IF i > FracLimbs THEN 1 ELSE 0],
                       <<>>, <<>>)
    IN  [m |-> IF neg THEN BigSub(s[1], s[2]) ELSE BigAdd(s[1], s[2]),
         e |-> 0 - FracLimbs]

\* e^x for a fixed-point x: x counts thousandths, and e^x = (e^0.001)^x; for
\* x < 0, (e^-0.001)^-x
BigExp(x) ==
    IF x < 0 THEN BigPow(ExpUnit(1, TRUE), 0 - x) ELSE BigPow(ExpUnit(1, FALSE), x)

\* The long number p as a float of the model.  In thousandths, rounded to the
\* nearest, when that is an integer TLC can hold (below 2^31); above, the record of
\* its leading digits: p is between mant * 10^exp10 and (mant + 1) * 10^exp10
BigToFloat(p) ==
    LET s == p.e + 1
        n == Len(p.m)
        digit(j) == Limb(p.m, j - s)
        up == IF digit(0) >= 500 THEN 1 ELSE 0
        low == (digit(3) * One + digit(2)) * One + digit(1) + up
    IN  IF n + s <= 3 \/ (n + s = 4 /\ (digit(4) < 2 \/ (digit(4) = 2 /\ low <= 147483647)))
        THEN digit(4) * One * One * One + low
        ELSE [mant |-> (Limb(p.m, n) * One + Limb(p.m, n - 1)) * One + Limb(p.m, n - 2),
              exp10 |-> 3 * (p.e + n - 3)]

\* math.exp(x), for x up to MaxExpArg
MathExp(x) == BigToFloat(BigExp(x))

\* any([k == "loss" for k in logs])
HasLoss(logs) == \E i \in 1..Len(logs) : logs[i][1] = "loss"

on_log ==
    /\ \E l \in LogPayloads : Enter("on_log", [NoArgs EXCEPT !.logs = l])
    /\ pc' = "lg_exp"
    /\ UNCHANGED <<json_schema, file, f, env, exc, steps_seen, epochs_seen>>

\* if any(...): logs["perplexity"] = math.exp(logs["loss"])
lg_exp ==
    /\ pc = "lg_exp"
    /\ IF HasLoss(args.logs)
       THEN IF DictGet(args.logs, "loss") > MaxExpArg
            THEN Raise("lg_exp", "OverflowError") /\ UNCHANGED args
            ELSE /\ args' = [args EXCEPT !.logs = DictSet(@, "perplexity",
                                                         MathExp(DictGet(@, "loss")))]
                 /\ pc' = "lg_super"
                 /\ UNCHANGED <<fault, exc>>
       ELSE pc' = "lg_super" /\ UNCHANGED <<args, fault, exc>>
    /\ UNCHANGED <<handler, json_schema, file, f, env, calls, energy_data, energy_metrics,
                   pre, steps_seen, epochs_seen>>

\* super().on_log(args, state, control, model, logs, **kwargs)
lg_super ==
    /\ pc = "lg_super"
    /\ calls' = Append(calls, Super("on_log", args.logs))
    /\ \/ pc' = "done" /\ UNCHANGED <<fault, exc>>
       \/ Raise("lg_super", "Exception")
    /\ UNCHANGED <<handler, args, json_schema, file, f, env, energy_data, energy_metrics,
                   pre, steps_seen, epochs_seen>>

----------------------------------------------------------------------------

Next ==
    \/ init
    \/ w_open \/ w_dump \/ w_close
    \/ on_init_end \/ on_epoch_begin \/ on_step_begin \/ on_evaluate \/ on_save
    \/ on_prediction_step \/ on_train_end \/ super_call
    \/ on_step_end \/ se_log \/ se_append
    \/ on_train_begin \/ tb_super \/ tb_watch \/ tb_log \/ tb_set
    \/ on_epoch_end \/ ee_super \/ ee_query1 \/ ee_log1 \/ ee_query2 \/ ee_log2
    \/ ee_append \/ ee_pass
    \/ on_log \/ lg_exp \/ lg_super

Spec == Init /\ [][Next]_vars

----------------------------------------------------------------------------
(* write_to_json on its own: called on a snapshot, and called again *)

json_file == "snapshot.json"

\* The sequences over S of length up to n
SeqsUpTo(S, n) == UNION { [1..k -> S] : k \in 0..n }

\* The values self.json_schema can take
Snapshots ==
    { [model_info |-> m, energy_metrics |-> e, global_step_info |-> g] :
        m \in {<<>>} \cup { ModelInfo(x) : x \in Models },
        e \in SeqsUpTo({ EnergyMetrics(r) : r \in Readings }, MaxEpochEnds),
        g \in SeqsUpTo(GlobalSteps, MaxStepEnds) }

\* self.write_to_json(self.json_schema, self.json_file) is called
WriteInit ==
    /\ handler = "write_to_json"
    /\ pc = "w_open"
    /\ args = NoArgs
    /\ json_schema \in Snapshots
    /\ file \in OldFiles
    /\ f = Closed
    /\ env = [WANDB_PROJECT |-> "unset", WANDB_WATCH |-> "false"]
    /\ calls = << Call("write_to_json", json_file, <<>>, NoStep) >>
    /\ energy_data = NoReading
    /\ energy_metrics = <<>>
    /\ fault = NoExc
    /\ exc = NoExc
    /\ pre = [json_schema |-> json_schema, file |-> file, logs |-> <<>>]
    /\ steps_seen = <<>>
    /\ epochs_seen = 0

\* The call has returned; it is made a second time, with the same data and path
write_again ==
    /\ pc = "done"
    /\ Len(calls) < 2
    /\ calls' = Append(calls, Call("write_to_json", json_file, <<>>, NoStep))
    /\ pre' = [json_schema |-> json_schema, file |-> file, logs |-> <<>>]
    /\ pc' = "w_open"
    /\ UNCHANGED <<handler, args, json_schema, file, f, env, energy_data, energy_metrics,
                   fault, exc, steps_seen, epochs_seen>>

WriteNext == w_open \/ w_dump \/ w_close \/ write_again

WriteSpec == WriteInit /\ [][WriteNext]_vars

----------------------------------------------------------------------------
(* What a reader of the snapshot file gets: json.load of its content,      *)
(* checked against the three-field schema.  Used by the properties only.   *)

JsonKeys == {"model_info", "energy_metrics", "global_step_info", "num_parameters",
             "trainable_parameters", "carbon_kg", "total_power",
             "power_usage_effectiveness", "exp_len_hrs"}

JsonInts == GlobalSteps \cup {m.num_parameters : m \in Models}
            \cup {m.trainable_parameters : m \in Models}

JsonFloats == UNION { {r.kg_carbon, r.total_power, r.PUE, r.exp_len_hours} : r \in Readings }

IsKeyAtom(a) == \E k \in JsonKeys : Quote(k) = a
KeyOf(a) == CHOOSE k \in JsonKeys : Quote(k) = a

IsNumAtom(a, isfloat) ==
    IF isfloat THEN \E x \in JsonFloats : FloatStr(x) = a
    ELSE \E n \in JsonInts : IntStr(n) = a
NumOf(a, isfloat) ==
    IF isfloat THEN CHOOSE x \in JsonFloats : FloatStr(x) = a
    ELSE CHOOSE n \in JsonInts : IntStr(n) = a

ParseFail == [ok |-> FALSE, val |-> <<>>, rest |-> <<>>]

Rest(s, n) == SubSeq(s, n, Len(s))

\* "key": number (, "key": number)* }
RECURSIVE ParseItems(_, _)
ParseItems(s, isfloat) ==
    IF Len(s) < 4 THEN ParseFail
    ELSE IF ~IsKeyAtom(s[1]) \/ s[2] # ": " \/ ~IsNumAtom(s[3], isfloat) THEN ParseFail
    ELSE LET item == << KeyOf(s[1]), NumOf(s[3], isfloat) >> IN
         IF s[4] = "}" THEN [ok |-> TRUE, val |-> << item >>, rest |-> Rest(s, 5)]
         ELSE IF s[4] = ", "
              THEN LET r == ParseItems(Rest(s, 5), isfloat) IN
                   IF r.ok THEN [ok |-> TRUE, val |-> << item >> \o r.val, rest |-> r.rest]
                   ELSE ParseFail
              ELSE ParseFail

ParseDict(s, isfloat) ==
    IF s = <<>> THEN ParseFail
    ELSE IF s[1] = "{}" THEN [ok |-> TRUE, val |-> <<>>, rest |-> Tail(s)]
    ELSE IF s[1] = "{" THEN ParseItems(Tail(s), isfloat)
    ELSE ParseFail

\* [number (, number)* ]: the encoder joins the bracket or the comma to the number
IsElemAtom(a, open) == \E n \in JsonInts : open \o IntStr(n) = a
ElemOf(a, open) == CHOOSE n \in JsonInts : open \o IntStr(n) = a

RECURSIVE ParseIntElems(_, _)
ParseIntElems(s, open) ==
    IF Len(s) < 2 THEN ParseFail
    ELSE IF ~IsElemAtom(s[1], open) THEN ParseFail
    ELSE LET n == ElemOf(s[1], open) IN
         IF s[2] = "]" THEN [ok |-> TRUE, val |-> << n >>, rest |-> Rest(s, 3)]
         ELSE LET r == ParseIntElems(Tail(s), ", ") IN
              IF r.ok THEN [ok |-> TRUE, val |-> << n >> \o r.val, rest |-> r.rest]
              ELSE ParseFail

ParseIntList(s) ==
    IF s = <<>> THEN ParseFail
    ELSE IF s[1] = "[]" THEN [ok |-> TRUE, val |-> <<>>, rest |-> Tail(s)]
    ELSE ParseIntElems(s, "[")

\* dict (, dict)* ]
RECURSIVE ParseDictElems(_)
ParseDictElems(s) ==
    LET d == ParseDict(s, TRUE) IN
    IF ~d.ok \/ d.rest = <<>> THEN ParseFail
    ELSE IF d.rest[1] = "]" THEN [ok |-> TRUE, val |-> << d.val >>, rest |-> Tail(d.rest)]
    ELSE IF d.rest[1] = ", "
         THEN LET r == ParseDictElems(Tail(d.rest)) IN
              IF r.ok THEN [ok |-> TRUE, val |-> << d.val >> \o r.val, rest |-> r.rest]
              ELSE ParseFail
         ELSE ParseFail

ParseDictList(s) ==
    IF s = <<>> THEN ParseFail
    ELSE IF s[1] = "[]" THEN [ok |-> TRUE, val |-> <<>>, rest |-> Tail(s)]
    ELSE IF s[1] = "[" THEN ParseDictElems(Tail(s))
    ELSE ParseFail

\* the atoms s start with the atoms p
StartsWith(s, p) == Len(s) >= Len(p) /\ SubSeq(s, 1, Len(p)) = p

\* [ok, val]: ok iff the atoms are one JSON object with exactly the three fields
JsonLoad(s) ==
    LET bad == [ok |-> FALSE, val |-> NoSnapshot]
        k1 == << "{", Quote("model_info"), ": " >>
        k2 == << ", ", Quote("energy_metrics"), ": " >>
        k3 == << ", ", Quote("global_step_info"), ": " >>
    IN  IF ~StartsWith(s, k1) THEN bad
        ELSE LET m == ParseDict(Rest(s, 4), FALSE) IN
        IF ~m.ok \/ ~StartsWith(m.rest, k2) THEN bad
        ELSE LET e == ParseDictList(Rest(m.rest, 4)) IN
        IF ~e.ok \/ ~StartsWith(e.rest, k3) THEN bad
        ELSE LET g == ParseIntList(Rest(e.rest, 4)) IN
        IF ~g.ok \/ g.rest # << "}" >> THEN bad
        ELSE [ok |-> TRUE,
              val |-> [model_info |-> m.val, energy_metrics |-> e.val,
                       global_step_info |-> g.val]]

----------------------------------------------------------------------------
(* Properties *)

\* Handler h has returned normally
Returned(h) == handler = h /\ pc = "done"

\* What a reader of the snapshot file gets
FileJson == JsonLoad(file.content)

\* The constructor has returned: the first write is over
Constructed == handler # "__init__" \/ pc = "done"

\* The running handler has called DataInterface on this path
Queried(path) ==
    \E i \in 1..Len(calls) : calls[i].op = "DataInterface" /\ calls[i].target = path

\* The log calls the running handler has made to wandb
LogCalls == { i \in 1..Len(calls) : calls[i].op = "log" }

\* C1: after an on_step_end event returns, the file's global_step_info is the list
\* of the global steps of all on_step_end events so far, in arrival order, duplicates
\* included, whatever other handlers ran in between.
C1_StepInfoInFile ==
    Returned("on_step_end") =>
        /\ file.exists
        /\ FileJson.ok
        /\ FileJson.val.global_step_info = steps_seen

\* C1 witness: two step-end events with the same global step, an epoch-end in between
C1_Witness ==
    /\ Returned("on_step_end")
    /\ Len(steps_seen) = 2 /\ steps_seen[1] = steps_seen[2]
    /\ json_schema.energy_metrics # <<>>

\* C2: once __init__ has returned, the file exists and holds
\* {"model_info": {}, "energy_metrics": [], "global_step_info": []}, whatever the
\* project and whatever the path held before.
C2_EmptySnapshotWritten ==
    Returned("__init__") =>
        /\ file.exists
        /\ file.content = << "{", "\"model_info\"", ": ", "{}", ", ",
                             "\"energy_metrics\"", ": ", "[]", ", ",
                             "\"global_step_info\"", ": ", "[]", "}" >>
        /\ FileJson = [ok |-> TRUE,
                       val |-> [model_info |-> <<>>, energy_metrics |-> <<>>,
                                global_step_info |-> <<>>]]

\* C2 witness: construction over a path that held an earlier snapshot
C2_Witness ==
    /\ Returned("__init__")
    /\ pre.file.exists /\ Len(pre.file.content) > 2
    /\ env.WANDB_PROJECT = "mistral"

\* The entry C3 expects for the reading r
ExpectedEntry(r) ==
    << << "carbon_kg", r.kg_carbon >>, << "total_power", r.total_power >>,
       << "power_usage_effectiveness", r.PUE >>, << "exp_len_hrs", r.exp_len_hours >> >>

\* C3 as stated: on an on_epoch_end event whose step-keyed query
\* (self.energy_log) succeeded with reading r, energy_metrics is what it was at
\* entry plus one entry at the end, built from r, and the file has been rewritten
\* to hold it.  Stated of the events that return normally, where no exception
\* could excuse a missing entry.
C3_EpochEndAppendsReading ==
    (Returned("on_epoch_end") /\ Queried(energy_log) /\ fault.site # "ee_query2") =>
        /\ energy_data \in Readings
        /\ json_schema.energy_metrics =
               Append(pre.json_schema.energy_metrics, ExpectedEntry(energy_data))
        /\ json_schema.model_info = pre.json_schema.model_info
        /\ json_schema.global_step_info = pre.json_schema.global_step_info
        /\ file.exists
        /\ FileJson = [ok |-> TRUE, val |-> json_schema]

\* C4: when the step-keyed query of on_epoch_end raises ValueError, energy_metrics
\* and the file stay as they were at entry, no step-keyed log call is made, and no
\* exception leaves the handler.
C4_StepQueryErrorSwallowed ==
    (handler = "on_epoch_end" /\ fault = [kind |-> "ValueError", site |-> "ee_query2"]) =>
        /\ pc \in {"ee_pass", "done"}
        /\ exc = NoExc
        /\ json_schema = pre.json_schema
        /\ file = pre.file
        /\ \A i \in LogCalls : calls[i].step[1] # "int"

\* C4 witness: the handler has returned after swallowing the error, with entries
\* from earlier epochs in the snapshot
C4_Witness ==
    /\ Returned("on_epoch_end")
    /\ fault = [kind |-> "ValueError", site |-> "ee_query2"]
    /\ json_schema.energy_metrics # <<>>

\* C5: when the epoch-keyed query (args.energy_dir) of on_epoch_end raises
\* ValueError, the error leaves the handler; the base delegation has been made, no
\* log call and no second query have, and the snapshot and the file are as at entry.
C5_EpochQueryErrorPropagates ==
    (handler = "on_epoch_end" /\ fault = [kind |-> "ValueError", site |-> "ee_query1"]) =>
        /\ pc = "aborted"
        /\ exc = [kind |-> "ValueError", site |-> "ee_query1"]
        /\ Len(calls) = 2
        /\ calls[1].op = "super" /\ calls[1].target = "on_epoch_end"
        /\ calls[2].op = "DataInterface" /\ calls[2].target = energy_dir
        /\ LogCalls = {}
        /\ ~Queried(energy_log)
        /\ json_schema = pre.json_schema
        /\ file = pre.file

\* C5 witness: the error has left an epoch-end that ran on a filled snapshot
C5_Witness ==
    /\ handler = "on_epoch_end" /\ pc = "aborted"
    /\ exc = [kind |-> "ValueError", site |-> "ee_query1"]
    /\ json_schema.global_step_info # <<>>

\* C6: when on_train_begin returns, model_info is {num_parameters: N,
\* trainable_parameters: T} in memory and in the file, and the handler has made, in
\* this order, the base delegation, the watch call and exactly one log call, which
\* carries the two counts at the current global step.
C6_TrainBeginRecordsModel ==
    Returned("on_train_begin") =>
        LET N == args.model.num_parameters
            T == args.model.trainable_parameters
            info == << << "num_parameters", N >>, << "trainable_parameters", T >> >>
        IN  /\ json_schema.model_info = info
            /\ FileJson.ok
            /\ FileJson.val.model_info = info
            /\ Len(calls) = 3
            /\ calls[1].op = "super" /\ calls[1].target = "on_train_begin"
            /\ calls[2].op = "watch"
            /\ calls[3].op = "log"
            /\ calls[3].payload = << << "model-info/num_parameters", N >>,
                                     << "model-info/trainable_parameters", T >> >>
            /\ calls[3].step = << "int", args.global_step >>

\* C6 witness: the model with 1000 parameters, 800 of them trainable
C6_Witness ==
    /\ Returned("on_train_begin")
    /\ args.model = [num_parameters |-> 1000, trainable_parameters |-> 800]
    /\ json_schema.global_step_info # <<>>

\* C7: in every state after the first write, the snapshot file holds a JSON object
\* with exactly the three fields; an empty or partly written file is never there.
C7_FileAlwaysValid ==
    Constructed => (file.exists /\ FileJson.ok)

\* The failures the recorder is told of: an exception raised inside a handler
Failed == fault # NoExc /\ handler # "__init__"

\* C8 as stated: an exception leaves a handler only when the epoch-keyed query
\* (args.energy_dir) of on_epoch_end fails.
C8_OnlyEpochQueryEscapes ==
    (exc # NoExc /\ handler # "__init__") =>
        (handler = "on_epoch_end" /\ exc.site = "ee_query1")

\* A failure has left the handler, or is leaving it: the OSError of json.dump
\* passes the exit of the with block, which closes the file, on its way out
Escapes == \/ exc = fault /\ pc = "aborted"
           \/ DumpFailed /\ exc = NoExc /\ pc = "w_close"

\* C8 amended: of the failures inside a handler, those the recorder catches are
\* the ValueErrors raised inside the try block of on_epoch_end, by the step-keyed
\* query (self.energy_log) or by the step-keyed wandb.log that follows it, after
\* which the handler returns with the snapshot and the file as they were at entry;
\* every other failure (the epoch-keyed query or its log, another error of the
\* step-keyed query or log, an I/O error of the snapshot write, a failing wandb
\* call of on_step_end or on_train_begin, a failing base delegate, the range error
\* of e^loss) leaves the handler it occurs in.
C8_CaughtOnlyInTry ==
    Failed =>
        IF /\ handler = "on_epoch_end" /\ fault.kind = "ValueError"
           /\ fault.site \in {"ee_query2", "ee_log2"}
        THEN /\ exc = NoExc /\ pc \in {"ee_pass", "done"}
             /\ json_schema = pre.json_schema
             /\ file = pre.file
        ELSE Escapes

\* C8 witness: an I/O error has left on_step_end
C8_Witness ==
    /\ handler = "on_step_end" /\ pc = "aborted"
    /\ exc = [kind |-> "OSError", site |-> "w_close"]

\* C9: an I/O error of the snapshot write is never caught: in __init__,
\* on_step_end, on_train_begin and on_epoch_end alike it leaves the caller, the
\* except clause of on_epoch_end notwithstanding.
C9_IOErrorPropagates ==
    fault.kind = "OSError" =>
        /\ handler \in {"__init__", "on_step_end", "on_train_begin", "on_epoch_end"}
        /\ fault.site \in {"w_open", "w_dump", "w_close"}
        /\ Escapes

\* C9 witness: the rewrite that follows the append of on_epoch_end has failed, and
\* the error has left the handler
C9_Witness ==
    /\ handler = "on_epoch_end" /\ pc = "aborted"
    /\ exc.kind = "OSError"
    /\ json_schema.energy_metrics # pre.json_schema.energy_metrics

\* The payload on_log has handed to the base delegate
Delegated == calls[Len(calls)].payload

\* The keys of a dict
Keys(d) == { d[i][1] : i \in 1..Len(d) }

\* What C10 asks of the delegated payload d for the incoming payload l
PayloadAsClaimed(l, d) ==
    IF "loss" \in Keys(l)
    THEN /\ Keys(d) = Keys(l) \cup {"perplexity"}
         /\ \A k \in Keys(l) : DictGet(d, k) = DictGet(l, k)
         /\ DictGet(d, "perplexity") = MathExp(DictGet(l, "loss"))
         /\ (DictGet(l, "loss") = 0 => DictGet(d, "perplexity") = 1000)
    ELSE d = l

\* C10: on every on_log event the base delegate is called, with the incoming
\* payload plus perplexity = e^loss when the payload has the key loss and with the
\* incoming payload as it is otherwise; the snapshot and the file are untouched.
C10_LogAddsPerplexity ==
    (handler = "on_log" /\ pc \in {"done", "aborted"}) =>
        /\ calls # <<>>
        /\ calls[Len(calls)].op = "super" /\ calls[Len(calls)].target = "on_log"
        /\ PayloadAsClaimed(pre.logs, Delegated)
        /\ json_schema = pre.json_schema
        /\ file = pre.file

\* C10 where it holds: a loss for which e^loss is a double
LogRepresentable ==
    (handler = "on_log" /\ pc \in {"done", "aborted"} /\ fault.kind # "OverflowError") =>
        /\ calls # <<>>
        /\ calls[Len(calls)].op = "super" /\ calls[Len(calls)].target = "on_log"
        /\ PayloadAsClaimed(pre.logs, Delegated)
        /\ json_schema = pre.json_schema
        /\ file = pre.file

\* The bytes of a file: its atoms one after the other
RECURSIVE Bytes(_)
Bytes(content) ==
    IF content = <<>> THEN "" ELSE Head(content) \o Bytes(Tail(content))

\* C11: write_to_json called a second time with the same snapshot and path leaves
\* the file with the bytes the first call left, which are the encoding of the
\* snapshot alone: nothing is appended to what the file held.
C11_WriteIdempotent ==
    (handler = "write_to_json" /\ pc = "done" /\ Len(calls) = 2) =>
        /\ pre.json_schema = json_schema
        /\ Bytes(file.content) = Bytes(pre.file.content)
        /\ FileJson = [ok |-> TRUE, val |-> json_schema]
        /\ Len(file.content) = Len(JsonDump(json_schema))

\* C11 witness: the second call has returned, on a snapshot with all three fields
\* filled
C11_Witness ==
    /\ handler = "write_to_json" /\ pc = "done" /\ Len(calls) = 2
    /\ json_schema.model_info # <<>>
    /\ Len(json_schema.energy_metrics) = 2
    /\ Len(json_schema.global_step_info) = 2

\* The positions of on_epoch_end from the append on
AfterAppend == {"w_open", "w_dump", "w_close", "done"}

\* C12: an on_epoch_end in which nothing fails does, in this order: the base
\* delegation, the query of args.energy_dir, a log of its reading keyed at
\* state.epoch, the query of self.energy_log, a log of its reading keyed at
\* state.global_step, the append of that second reading to energy_metrics, the
\* rewrite of the file.  Two log calls are made, no more.
C12_EpochEndOrder ==
    (handler = "on_epoch_end" /\ fault = NoExc) =>
        LET n == Len(calls)
            entry == << << "energy_metrics", ExpectedEntry(energy_data) >> >>
        IN  /\ n = CASE pc = "ee_super" -> 0
                     [] pc = "ee_query1" -> 1
                     [] pc = "ee_log1" -> 2
                     [] pc = "ee_query2" -> 3
                     [] pc = "ee_log2" -> 4
                     [] OTHER -> 5
            /\ n >= 1 => (calls[1].op = "super" /\ calls[1].target = "on_epoch_end")
            /\ n >= 2 => (calls[2].op = "DataInterface" /\ calls[2].target = energy_dir)
            /\ n >= 3 => (calls[3].op = "log" /\ calls[3].step = << "float", args.epoch >>)
            /\ n = 3 => calls[3].payload = entry
            /\ n >= 4 => (calls[4].op = "DataInterface" /\ calls[4].target = energy_log)
            /\ n >= 5 => /\ calls[5].op = "log"
                         /\ calls[5].step = << "int", args.global_step >>
                         /\ calls[5].payload = entry
            /\ Cardinality(LogCalls) <= 2
            /\ pc \notin AfterAppend => json_schema = pre.json_schema
            /\ pc \in AfterAppend =>
                   json_schema = [pre.json_schema EXCEPT
                                    !.energy_metrics = Append(@, calls[5].payload[1][2])]
            /\ pc = "w_dump" => file.content = <<>>
            /\ pc = "w_close" =>
                   Glue(file.content, f.bin, f.cut) \o f.buf = JsonDump(json_schema)
            /\ pc \notin {"w_dump", "w_close", "done"} => file = pre.file
            /\ pc = "done" => (Cardinality(LogCalls) = 2
                               /\ FileJson = [ok |-> TRUE, val |-> json_schema])

\* C12 witness: a successful epoch-end whose two queries answered differently
C12_Witness ==
    /\ Returned("on_epoch_end") /\ fault = NoExc
    /\ Len(calls) = 5
    /\ calls[3].payload # calls[5].payload
    /\ pre.json_schema.energy_metrics # <<>>

\* C13: on_step_end makes one log call, {"info/global_step": s} keyed at step s,
\* before it appends s and before it rewrites the file; when that call raises, the
\* snapshot and the file are as they were at entry.
C13_StepEndLogsFirst ==
    handler = "on_step_end" =>
        LET s == args.global_step IN
        /\ pc = "se_log" => (calls = <<>> /\ fault = NoExc)
        /\ pc # "se_log" =>
              /\ Len(calls) = 1
              /\ calls[1].op = "log"
              /\ calls[1].payload = << << "info/global_step", s >> >>
              /\ calls[1].step = << "int", s >>
        /\ (json_schema # pre.json_schema \/ file # pre.file) =>
              (Len(calls) = 1 /\ fault.site # "se_log")
        /\ fault.site = "se_log" =>
              /\ pc = "aborted"
              /\ json_schema = pre.json_schema
              /\ file = pre.file
        /\ pc = "done" =>
              json_schema.global_step_info = Append(pre.json_schema.global_step_info, s)

\* C13 witness: the log call of a second step-end has raised
C13_Witness ==
    /\ handler = "on_step_end" /\ pc = "aborted"
    /\ fault = [kind |-> "wandb.Error", site |-> "se_log"]
    /\ json_schema.global_step_info # <<>>

\* C14: whenever __init__ or a handler has returned normally, the file holds the
\* JSON serialisation of the in-memory snapshot: a reader gets model_info,
\* energy_metrics and global_step_info as they are in memory, no entry missing.
C14_FileMirrorsSnapshot ==
    pc = "done" =>
        /\ file.exists
        /\ FileJson = [ok |-> TRUE, val |-> json_schema]
        /\ Bytes(file.content) = Bytes(JsonDump(json_schema))

\* C14 witness: an epoch-end that swallowed the error of its step-keyed query has
\* returned, on a snapshot with all three fields filled
C14_Witness ==
    /\ Returned("on_epoch_end") /\ fault.kind = "ValueError"
    /\ json_schema.model_info # <<>>
    /\ json_schema.energy_metrics # <<>>
    /\ Len(json_schema.global_step_info) = 2

\* The handlers that record nothing
NonRecording == {"on_init_end", "on_epoch_begin", "on_step_begin", "on_evaluate",
                 "on_save", "on_prediction_step", "on_train_end", "on_log"}

\* C15: on_init_end, on_epoch_begin, on_step_begin, on_evaluate, on_save,
\* on_prediction_step, on_train_end and on_log leave the snapshot and the file as
\* they were and call nothing but their base delegate; the file is touched only by
\* __init__, on_train_begin, on_step_end and an on_epoch_end whose step-keyed query
\* and log succeeded.
C15_NonRecordingFrame ==
    /\ handler \in NonRecording =>
          /\ json_schema = pre.json_schema
          /\ file = pre.file
          /\ f = Closed
          /\ Len(calls) <= 1
          /\ \A i \in 1..Len(calls) : calls[i].op = "super" /\ calls[i].target = handler
    /\ file # pre.file =>
          /\ handler \in {"__init__", "on_train_begin", "on_step_end", "on_epoch_end"}
          /\ handler = "on_epoch_end" =>
                (Len(calls) = 5 /\ calls[5].op = "log"
                 /\ fault.site \notin {"ee_query2", "ee_log2"})

\* C15 witness: on_evaluate has returned on a filled snapshot
C15_Witness ==
    /\ Returned("on_evaluate")
    /\ Len(calls) = 1
    /\ json_schema.model_info # <<>>
    /\ json_schema.energy_metrics # <<>>
    /\ json_schema.global_step_info # <<>>

\* a is b, or b cut at its end
IsPrefix(a, b) == Len(a) <= Len(b) /\ SubSeq(b, 1, Len(a)) = a

\* a is b, or b with one more element at its end
GrownByAtMostOne(b, a) == IsPrefix(b, a) /\ Len(a) <= Len(b) + 1

\* What C16 says of one step of the recorder
C16_Step ==
    /\ IsPrefix(json_schema.energy_metrics, json_schema'.energy_metrics)
    /\ IsPrefix(json_schema.global_step_info, json_schema'.global_step_info)

\* What C16 says of every state
C16_State ==
    /\ handler = "on_step_end" =>
          /\ json_schema.model_info = pre.json_schema.model_info
          /\ json_schema.energy_metrics = pre.json_schema.energy_metrics
          /\ GrownByAtMostOne(pre.json_schema.global_step_info, json_schema.global_step_info)
          /\ pc = "done" =>
                json_schema.global_step_info =
                    Append(pre.json_schema.global_step_info, args.global_step)
    /\ handler = "on_epoch_end" =>
          /\ json_schema.model_info = pre.json_schema.model_info
          /\ json_schema.global_step_info = pre.json_schema.global_step_info
          /\ GrownByAtMostOne(pre.json_schema.energy_metrics, json_schema.energy_metrics)
    /\ handler = "on_train_begin" =>
          /\ json_schema.energy_metrics = pre.json_schema.energy_metrics
          /\ json_schema.global_step_info = pre.json_schema.global_step_info
    /\ handler \notin {"on_step_end", "on_epoch_end", "on_train_begin"} =>
          json_schema = pre.json_schema
    /\ pc = "done" => Len(json_schema.global_step_info) = Len(steps_seen)
    /\ Len(json_schema.energy_metrics) <= epochs_seen

\* C16: energy_metrics and global_step_info only grow, at their end; on_step_end adds
\* one element to global_step_info and changes nothing else, on_epoch_end adds at most
\* one element to energy_metrics and changes nothing else, on_train_begin changes
\* model_info only; whenever a handler has returned, global_step_info is as long as
\* the number of on_step_end events, and energy_metrics is never longer than the
\* number of on_epoch_end events.
C16_AppendOnly == []C16_State /\ [][C16_Step]_vars

\* C16 witness: both lists have grown twice, by different readings
C16_Witness ==
    /\ pc = "done"
    /\ Len(json_schema.global_step_info) = 2
    /\ Len(json_schema.energy_metrics) = 2
    /\ json_schema.energy_metrics[1] # json_schema.energy_metrics[2]
    /\ json_schema.model_info # <<>>

====
